---- MODULE Spec2Model ----
(***************************************************************************)
(* Model of the timed-quiz session component                               *)
(* src/app/@protected_routes/quiz/[id]/page.tsx (QuizComponent).           *)
(*                                                                         *)
(* The component runs on a single-threaded event loop.  One step of the    *)
(* model is one event (the mount effect, the resolution of the bank fetch, *)
(* a timer tick, a click) together with the render it causes and the       *)
(* effects of that render (lines 124-149).                                 *)
(*                                                                         *)
(* Strings of digits (the URL parameters, the week names) are sequences of *)
(* digits 0..9 and are converted by ParseInt / Number as the code does.    *)
(* The question text is represented by the bank position of the question   *)
(* (field question).  Array indices are 0-based as in the code; element i *)
(* of an array is element i + 1 of the sequence.                           *)
(***************************************************************************)
EXTENDS Integers, Sequences, FiniteSets, TLC

(* ---------------------------------------------------------------- bounds *)

\* Largest value of the numQ URL parameter that is tried.
MaxNumQ == 3

(* ------------------------------------------------------------- constants *)

\* useState<number | null>(null): the value standing for null (line 50).
NoIndex == -1

\* q.selectedAnswer of a question that was never answered (line 33).
Undefined == "undefined"

\* fetchError === null (line 53).
NoError == "null"

(* ---------------------------------------------------------------- inputs *)

\* The pathnames tried: [hasQuiz |-> the path contains "/quiz/",
\* courseCode |-> what follows it, up to a "?"].
Pathnames ==
    { [hasQuiz |-> TRUE,  courseCode |-> "CS101"],
      [hasQuiz |-> TRUE,  courseCode |-> ""],
      [hasQuiz |-> FALSE, courseCode |-> ""] }

\* The values of the time parameter tried with every request; <<>> is an
\* absent (or empty) one.
TimeParams ==
    { <<0, 0, 0, 0, 0, 2>>,
      <<0, 0, 0, 0, 3, 1>> }

\* The values of the time parameter tried with the one request TimerRequest:
\* absent, zero, too short to hold the three fields, hours and minutes set.
LongTimeParams ==
    { <<>>,
      <<0, 0, 0, 0, 0, 0>>,
      <<0, 0, 0, 0, 0, 1>>,
      <<0, 0, 0, 0, 3, 0>>,
      <<0, 0, 3, 0, 0, 0>>,
      <<0, 1, 0, 2, 0, 3>>,
      <<3, 0>> }

\* The values of the weeks parameter tried, already split at "-".
WeeksParams ==
    { <<>>,
      << <<1>> >>,
      << <<2>> >>,
      << <<1>>, <<2>> >>,
      << <<1>>, <<1>> >>,
      << <<3>>, <<0, 1>> >>,
      << <<4>> >>,
      << <<3>> >> }

\* The weeks and numQ parameters tried with LongTimeParams.
TimerWeeksParam == << <<0, 2>> >>
TimerNumQParam == << 1 >>

\* The values of the numQ parameter tried.
NumQParams == { <<>> } \cup { <<n>> : n \in 0..MaxNumQ }

\* The bank the service answers with (interface QuizContent, lines 15-29).
Bank ==
    [ title |-> "course",
      weeks |-> <<
        [ name |-> <<1>>,
          questions |-> <<
            [ question |-> 1, options |-> <<"a", "b">>, answer |-> <<"a">> ],
            [ question |-> 2, options |-> <<"a", "b">>, answer |-> <<"b", "a">> ] >> ],
        [ name |-> <<0, 2>>,
          questions |-> <<
            [ question |-> 3, options |-> <<"a", "b">>, answer |-> <<"a", "b">> ] >> ],
        [ name |-> <<4>>,
          questions |-> << >> ] >> ]

\* The outcomes of the fetch: the promise rejects, a non-success status,
\* a success carrying Bank.
Responses == { "reject", "notOk", "ok" }

(* ------------------------------------------------------- pure functions *)

RECURSIVE ParseInt(_)
\* parseInt of a non-empty string of digits; on the empty string the value 0
\* of Number("") (parseInt("") is NaN: see TimeIsNaN).
ParseInt(ds) ==
    IF Len(ds) = 0 THEN 0
    ELSE 10 * ParseInt(SubSeq(ds, 1, Len(ds) - 1)) + ds[Len(ds)]

\* String.prototype.substring(from, to) on a string of digits.
Substring(s, from, to) ==
    LET hi == IF to > Len(s) THEN Len(s) ELSE to
    IN  IF from >= hi THEN <<>> ELSE SubSeq(s, from + 1, hi)

\* parseInt("") is NaN, and NaN propagates through + and *.
TimeIsNaN(timeParam) ==
    \/ Substring(timeParam, 0, 2) = <<>>
    \/ Substring(timeParam, 2, 4) = <<>>
    \/ Substring(timeParam, 4, 6) = <<>>

\* Mutant of TimeSeconds: the hours multiplied by 60.
TimeSecondsHoursAsMinutes(timeParam) ==
    IF timeParam = <<>> THEN 0
    ELSE ParseInt(Substring(timeParam, 0, 2)) * 60
         + ParseInt(Substring(timeParam, 2, 4)) * 60
         + ParseInt(Substring(timeParam, 4, 6))

\* timeSeconds of lines 79-83 (when it is a number).
TimeSeconds(timeParam) ==
    IF timeParam = <<>> THEN 0
    ELSE ParseInt(Substring(timeParam, 0, 2)) * 3600
         + ParseInt(Substring(timeParam, 2, 4)) * 60
         + ParseInt(Substring(timeParam, 4, 6))

\* The argument of setTimeRemaining in line 85.
InitialTime(timeParam) ==
    IF timeParam # <<>> /\ TimeIsNaN(timeParam) THEN 30 * 60
    ELSE IF TimeSeconds(timeParam) > 0 THEN TimeSeconds(timeParam)
    ELSE 30 * 60

\* weeks of line 77: Number of each token ("" converts to 0).
ParseWeeks(weeksParam) ==
    [ i \in 1..Len(weeksParam) |-> ParseInt(weeksParam[i]) ]

\* numQuestions of line 78.
ParseNumQ(numQParam) ==
    IF numQParam = <<>> THEN 0 ELSE ParseInt(numQParam)

\* weeks.includes(n)
Includes(weeks, n) == \E i \in 1..Len(weeks) : weeks[i] = n

\* Mutant of ToQuizQuestion: the last listed answer taken for the first.
ToQuizQuestionLastAnswer(week, q) ==
    [ question |-> q.question,
      options |-> q.options,
      answer |-> q.answer[Len(q.answer)],
      weekNumber |-> week.name,
      selectedAnswer |-> Undefined ]

\* The QuizQuestion made of a bank question (lines 99-105).
ToQuizQuestion(week, q) ==
    [ question |-> q.question,
      options |-> q.options,
      answer |-> q.answer[1],
      weekNumber |-> week.name,
      selectedAnswer |-> Undefined ]

RECURSIVE FlatMapWeeks(_, _)
\* allQuestions of lines 96-106: the questions of the weeks whose parsed
\* name is among the requested weeks, in bank order.
FlatMapWeeks(bankWeeks, weeks) ==
    IF bankWeeks = <<>> THEN <<>>
    ELSE LET week == Head(bankWeeks)
             mine == IF Includes(weeks, ParseInt(week.name))
                     THEN [ i \in 1..Len(week.questions) |->
                              ToQuizQuestion(week, week.questions[i]) ]
                     ELSE <<>>
         IN  mine \o FlatMapWeeks(Tail(bankWeeks), weeks)

AllQuestions(weeks) == FlatMapWeeks(Bank.weeks, weeks)

\* The orderings of 1..n, as functions.
Orderings(n) ==
    { p \in [1..n -> 1..n] : \A i, j \in 1..n : p[i] = p[j] => i = j }

\* Mutant of Slice: the slice forgotten.
SliceAll(s, end) == s

\* Array.prototype.slice(0, end) for end >= 0.
Slice(s, end) == IF end >= Len(s) THEN s ELSE SubSeq(s, 1, end)

\* The possible results of lines 112-113: the comparator answers at random,
\* so sort may leave the candidates in any order; then slice(0, numQuestions).
SessionsOf(all, numQuestions) ==
    { Slice([ i \in 1..Len(all) |-> all[p[i]] ], numQuestions) :
        p \in Orderings(Len(all)) }

RECURSIVE CountCorrect(_)
CountCorrect(qs) ==
    IF qs = <<>> THEN 0
    ELSE (IF Head(qs).selectedAnswer = Head(qs).answer THEN 1 ELSE 0)
         + CountCorrect(Tail(qs))

\* correctAnswers of lines 169-171.
CorrectAnswers(qs) == CountCorrect(qs)

\* Mutant of NotSelected: the test of line 179 forgotten.
NotSelectedNever(q) == FALSE

\* Mutant of NotSelected: the test as selectedAnswer === "".
NotSelectedStrict(q) == q.selectedAnswer = ""

\* !currentQuestion.selectedAnswer (line 179): undefined and "" are falsy.
NotSelected(q) == q.selectedAnswer = Undefined \/ q.selectedAnswer = ""

(* ----------------------------------------------------------------- state *)

VARIABLES
    mounted,                 \* the component is mounted
    fetchPc,                 \* fetchQuizContent: "start", "awaiting" (line 87), "done"
    weeks,                   \* its local weeks (line 77), while awaiting
    numQuestions,            \* its local numQuestions (line 78), while awaiting
    questions,               \* useState, line 43
    currentQuestionIndex,    \* line 44
    timeRemaining,           \* line 45
    quizSubmitted,           \* line 46
    score,                   \* line 47
    showWarning,             \* line 48
    showOnlyIncorrect,       \* line 49
    expandedQuestionIndex,   \* line 50
    showError,               \* line 51
    isLoading,               \* line 52
    fetchError,              \* line 53
    timerClosure,            \* the interval of lines 132-145: "none", or which
                             \* questions array its submitQuiz closes over:
                             \* "initial" (the [] of line 43) or "session"
    submitCalls              \* number of calls of submitQuiz so far

vars ==
    << mounted, fetchPc, weeks, numQuestions, questions, currentQuestionIndex,
       timeRemaining, quizSubmitted, score, showWarning, showOnlyIncorrect,
       expandedQuestionIndex, showError, isLoading, fetchError, timerClosure,
       submitCalls >>

\* The state after the first render: the initial values of lines 43-53.
Init ==
    /\ mounted = TRUE
    /\ fetchPc = "start"
    /\ weeks = <<>>
    /\ numQuestions = 0
    /\ questions = <<>>
    /\ currentQuestionIndex = 0
    /\ timeRemaining = 0
    /\ quizSubmitted = FALSE
    /\ score = 0
    /\ showWarning = FALSE
    /\ showOnlyIncorrect = FALSE
    /\ expandedQuestionIndex = NoIndex
    /\ showError = FALSE
    /\ isLoading = FALSE
    /\ fetchError = NoError
    /\ timerClosure = "none"
    /\ submitCalls = 0

\* Mutant of ViewOf: the quizSubmitted branch tested before fetchError.
ViewOfSubmittedFirst(loading, error, qs, submitted) ==
    IF loading THEN "loading"
    ELSE IF submitted THEN "review"
    ELSE IF error # NoError THEN "error"
    ELSE IF Len(qs) = 0 THEN "empty"
    ELSE "answering"

\* Which branch of lines 206-445 is rendered.
ViewOf(loading, error, qs, submitted) ==
    IF loading THEN "loading"
    ELSE IF error # NoError THEN "error"
    ELSE IF Len(qs) = 0 THEN "empty"
    ELSE IF submitted THEN "review"
    ELSE "answering"

View == ViewOf(isLoading, fetchError, questions, quizSubmitted)

\* currentQuestion of lines 177 and 370, in the answering view.
CurrentQuestion == questions[currentQuestionIndex + 1]

\* displayedQuestions of lines 225-227.
DisplayedQuestions ==
    IF showOnlyIncorrect
    THEN SelectSeq(questions, LAMBDA q : q.selectedAnswer # q.answer)
    ELSE questions

(* ------------------------------------------------- render and its effects *)

\* Mutant of AutoSubmits: the effect without its !quizSubmitted guard.
AutoSubmitsUnguarded(tr, submitted, qs) == tr = 0 /\ Len(qs) > 0

\* The effect of lines 124-128 on the state a handler leaves.
AutoSubmits(tr, submitted, qs) == tr = 0 /\ ~submitted /\ Len(qs) > 0

\* Mutant of TimerAfter: the guard of line 131 without !quizSubmitted.
TimerAfterNoSubmitGuard(tr, submitted, loaded) ==
    IF tr = timeRemaining /\ submitted = quizSubmitted THEN timerClosure
    ELSE IF tr > 0
         THEN (IF loaded THEN "session" ELSE "initial")
         ELSE "none"

\* Mutant of TimerAfter: the guard of line 131 as timeRemaining > 1.
TimerAfterOffByOne(tr, submitted, loaded) ==
    IF tr = timeRemaining /\ submitted = quizSubmitted THEN timerClosure
    ELSE IF tr > 1 /\ ~submitted
         THEN (IF loaded THEN "session" ELSE "initial")
         ELSE "none"

\* The effect of lines 130-149 after a render.  When neither dependency
\* changed the interval (and the closure it holds) stays; otherwise the
\* cleanup clears it and a new one is started if the guard of line 131 holds,
\* closing over the questions of that render.
TimerAfter(tr, submitted, loaded) ==
    IF tr = timeRemaining /\ submitted = quizSubmitted THEN timerClosure
    ELSE IF tr > 0 /\ ~submitted
         THEN (IF loaded THEN "session" ELSE "initial")
         ELSE "none"

\* The render after a handler that leaves timeRemaining = tr,
\* quizSubmitted = submitted, score = sc, questions = qs after calls calls of
\* submitQuiz, followed by the effects of lines 124-149; loaded tells whether
\* setQuestions (line 113) has been called by then.
Render(tr, submitted, sc, qs, calls, loaded) ==
    LET auto == AutoSubmits(tr, submitted, qs)
        submitted2 == submitted \/ auto
    IN  /\ timeRemaining' = tr
        /\ quizSubmitted' = submitted2
        /\ score' = (IF auto THEN CorrectAnswers(qs) ELSE sc)
        /\ questions' = qs
        /\ submitCalls' = calls + (IF auto THEN 1 ELSE 0)
        /\ timerClosure' = TimerAfter(tr, submitted2, loaded)

Loaded == fetchPc = "done" /\ fetchError = NoError

(* ---------------------------------------------------------------- actions *)

\* fetchQuizContent up to its first await (lines 57-87), or to its end when
\* it throws before.
Start(pathname, weeksParam, numQParam, timeParam) ==
    /\ mounted /\ fetchPc = "start"
    /\ IF ~pathname.hasQuiz \/ pathname.courseCode = ""
       THEN /\ fetchError' = (IF ~pathname.hasQuiz
                              THEN "Invalid quiz URL format."
                              ELSE "Course code not found in URL.")
            /\ isLoading' = FALSE
            /\ fetchPc' = "done"
            /\ UNCHANGED << weeks, numQuestions >>
            /\ Render(timeRemaining, quizSubmitted, score, questions,
                      submitCalls, FALSE)
       ELSE /\ fetchError' = NoError
            /\ isLoading' = TRUE
            /\ fetchPc' = "awaiting"
            /\ weeks' = ParseWeeks(weeksParam)
            /\ numQuestions' = ParseNumQ(numQParam)
            /\ Render(InitialTime(timeParam), quizSubmitted, score, questions,
                      submitCalls, FALSE)
    /\ UNCHANGED << mounted, currentQuestionIndex, showWarning,
                    showOnlyIncorrect, expandedQuestionIndex, showError >>

\* The mount effect (lines 55-122) for the requests tried.
Mount ==
    \E pathname \in Pathnames, weeksParam \in WeeksParams,
       numQParam \in NumQParams, timeParam \in TimeParams :
        Start(pathname, weeksParam, numQParam, timeParam)

\* The mount effect for one selection of questions and every time parameter.
MountTimer ==
    \E pathname \in Pathnames, timeParam \in LongTimeParams :
        Start(pathname, TimerWeeksParam, TimerNumQParam, timeParam)

\* The rest of fetchQuizContent (lines 87-118) once the fetch has settled
\* with response; session is what lines 112-113 made of the candidates.
Resume(response, session) ==
    /\ fetchPc = "awaiting"
    /\ fetchPc' = "done"
    /\ weeks' = <<>>
    /\ numQuestions' = 0
    /\ IF ~mounted
       THEN UNCHANGED << questions, timeRemaining, quizSubmitted, score,
                         isLoading, fetchError, timerClosure, submitCalls >>
       ELSE /\ isLoading' = FALSE
            /\ IF response = "reject"
               THEN /\ fetchError' = "Failed to fetch"
                    /\ Render(timeRemaining, quizSubmitted, score, questions,
                              submitCalls, FALSE)
               ELSE IF response = "notOk"
               THEN /\ fetchError' = "Error fetching quiz content: "
                    /\ Render(timeRemaining, quizSubmitted, score, questions,
                              submitCalls, FALSE)
               ELSE IF Len(AllQuestions(weeks)) = 0
               THEN /\ fetchError' = "No questions available for the selected weeks."
                    /\ Render(timeRemaining, quizSubmitted, score, questions,
                              submitCalls, FALSE)
               ELSE /\ fetchError' = fetchError
                    /\ Render(timeRemaining, quizSubmitted, score, session,
                              submitCalls, TRUE)
    /\ UNCHANGED << mounted, currentQuestionIndex, showWarning,
                    showOnlyIncorrect, expandedQuestionIndex, showError >>

FetchSettles ==
    \E response \in Responses :
        \E session \in SessionsOf(AllQuestions(weeks), numQuestions) :
            Resume(response, session)

\* The value the updater of lines 133-144 returns.
NextTime(prev) == IF prev <= 1 THEN 0 ELSE prev - 1

\* Mutant of Warns: the test as prev <= 30.
WarnsBelow(prev) == prev > 1 /\ prev <= 30

\* Whether the updater calls setShowWarning(true) (lines 134-142).
Warns(prev) == prev > 1 /\ prev = 30

\* The questions array the submitQuiz of the interval's closure reads.  The
\* objects of the session are shared by every copy of the array (line 163
\* copies the array, not the objects), so a closure made after line 113 reads
\* the current answers.
ClosureQuestions == IF timerClosure = "session" THEN questions ELSE <<>>

\* One firing of the interval (lines 132-145).
Tick ==
    /\ mounted /\ timerClosure # "none"
    /\ showWarning' = (showWarning \/ Warns(timeRemaining))
    /\ IF timeRemaining <= 1
       THEN Render(NextTime(timeRemaining), TRUE,
                   CorrectAnswers(ClosureQuestions), questions,
                   submitCalls + 1, Loaded)
       ELSE Render(NextTime(timeRemaining), quizSubmitted, score, questions,
                   submitCalls, Loaded)
    /\ UNCHANGED << mounted, fetchPc, weeks, numQuestions,
                    currentQuestionIndex, showOnlyIncorrect,
                    expandedQuestionIndex, showError, isLoading, fetchError >>

\* Mutant of WithAnswer: the answer written to every question.
WithAnswerEverywhere(qs, index, answer) ==
    [ i \in 1..Len(qs) |-> [ qs[i] EXCEPT !.selectedAnswer = answer ] ]

\* setElement of line 164 on a copy of the array.
WithAnswer(qs, index, answer) ==
    [ qs EXCEPT ![index + 1].selectedAnswer = answer ]

\* Mutant of HandleAnswerSelect: setShowError(false) of line 162 forgotten.
HandleAnswerSelectKeepsError(answer) ==
    /\ mounted /\ View = "answering"
    /\ showError' = showError
    /\ Render(timeRemaining, quizSubmitted, score,
              WithAnswer(questions, currentQuestionIndex, answer),
              submitCalls, Loaded)
    /\ UNCHANGED << mounted, fetchPc, weeks, numQuestions,
                    currentQuestionIndex, showWarning, showOnlyIncorrect,
                    expandedQuestionIndex, isLoading, fetchError >>

\* handleAnswerSelect (lines 161-166), called by an option button of the
\* current question (lines 412-415).
HandleAnswerSelect(answer) ==
    /\ mounted /\ View = "answering"
    /\ showError' = FALSE
    /\ Render(timeRemaining, quizSubmitted, score,
              WithAnswer(questions, currentQuestionIndex, answer),
              submitCalls, Loaded)
    /\ UNCHANGED << mounted, fetchPc, weeks, numQuestions,
                    currentQuestionIndex, showWarning, showOnlyIncorrect,
                    expandedQuestionIndex, isLoading, fetchError >>

\* The options of currentQuestion (line 370), when the answering view shows.
CurrentOptions ==
    IF View = "answering" THEN CurrentQuestion.options ELSE <<>>

SelectAnswer ==
    \E i \in 1..Len(CurrentOptions) : HandleAnswerSelect(CurrentOptions[i])

\* Mutant of GoToNextQuestion: the test of line 185 forgotten, the index
\* always incremented.
GoToNextQuestionAlwaysNext ==
    /\ mounted /\ View = "answering"
    /\ IF NotSelected(CurrentQuestion)
       THEN /\ showError' = TRUE
            /\ currentQuestionIndex' = currentQuestionIndex
       ELSE /\ showError' = FALSE
            /\ currentQuestionIndex' = currentQuestionIndex + 1
    /\ Render(timeRemaining, quizSubmitted, score, questions,
              submitCalls, Loaded)
    /\ UNCHANGED << mounted, fetchPc, weeks, numQuestions, showWarning,
                    showOnlyIncorrect, expandedQuestionIndex, isLoading,
                    fetchError >>

\* goToNextQuestion (lines 176-190), called by the Next / Submit button.
GoToNextQuestion ==
    /\ mounted /\ View = "answering"
    /\ IF NotSelected(CurrentQuestion)
       THEN /\ showError' = TRUE
            /\ currentQuestionIndex' = currentQuestionIndex
            /\ Render(timeRemaining, quizSubmitted, score, questions,
                      submitCalls, Loaded)
       ELSE /\ showError' = FALSE
            /\ IF currentQuestionIndex = Len(questions) - 1
               THEN /\ currentQuestionIndex' = currentQuestionIndex
                    /\ Render(timeRemaining, TRUE, CorrectAnswers(questions),
                              questions, submitCalls + 1, Loaded)
               ELSE /\ currentQuestionIndex' = currentQuestionIndex + 1
                    /\ Render(timeRemaining, quizSubmitted, score, questions,
                              submitCalls, Loaded)
    /\ UNCHANGED << mounted, fetchPc, weeks, numQuestions, showWarning,
                    showOnlyIncorrect, expandedQuestionIndex, isLoading,
                    fetchError >>

\* Mutant of ExpandedAfter: whatever is expanded is collapsed, also by a
\* click on another question.
ExpandedAfterCollapsesAny(prev, index) ==
    IF prev # NoIndex THEN NoIndex ELSE index

\* The updater of line 194: prev === index ? null : index.
ExpandedAfter(prev, index) ==
    IF prev = index THEN NoIndex ELSE index

\* toggleQuestionExpansion (lines 192-196), called by a click on a displayed
\* question (line 312).
ToggleQuestionExpansion(index) ==
    /\ mounted /\ View = "review"
    /\ expandedQuestionIndex' =
         (IF quizSubmitted
          THEN ExpandedAfter(expandedQuestionIndex, index)
          ELSE expandedQuestionIndex)
    /\ UNCHANGED << mounted, fetchPc, weeks, numQuestions, questions,
                    currentQuestionIndex, timeRemaining, quizSubmitted, score,
                    showWarning, showOnlyIncorrect, showError, isLoading,
                    fetchError, timerClosure, submitCalls >>

ToggleExpand ==
    \E index \in 0..(Len(DisplayedQuestions) - 1) :
        ToggleQuestionExpansion(index)

\* The checkbox of lines 285-290.
SetShowOnlyIncorrect(checked) ==
    /\ mounted /\ View = "review"
    /\ showOnlyIncorrect' = checked
    /\ UNCHANGED << mounted, fetchPc, weeks, numQuestions, questions,
                    currentQuestionIndex, timeRemaining, quizSubmitted, score,
                    showWarning, expandedQuestionIndex, showError, isLoading,
                    fetchError, timerClosure, submitCalls >>

SetFilter == SetShowOnlyIncorrect(~showOnlyIncorrect)

\* The component is unmounted (router.push of lines 352 and 359, or any
\* navigation away): the cleanup of line 147 clears the interval and the
\* state of the component is discarded (the variables take their initial
\* values again).  A fetch that is under way goes on.
Unmount ==
    /\ mounted
    /\ mounted' = FALSE
    /\ timerClosure' = "none"
    /\ questions' = <<>>
    /\ currentQuestionIndex' = 0
    /\ timeRemaining' = 0
    /\ quizSubmitted' = FALSE
    /\ score' = 0
    /\ showWarning' = FALSE
    /\ showOnlyIncorrect' = FALSE
    /\ expandedQuestionIndex' = NoIndex
    /\ showError' = FALSE
    /\ isLoading' = FALSE
    /\ fetchError' = NoError
    /\ submitCalls' = 0
    /\ UNCHANGED << fetchPc, weeks, numQuestions >>

Next ==
    \/ Mount
    \/ FetchSettles
    \/ Tick
    \/ SelectAnswer
    \/ GoToNextQuestion
    \/ ToggleExpand
    \/ SetFilter
    \/ Unmount

Spec == Init /\ [][Next]_vars

\* The same component with the requests of MountTimer.
NextTimer ==
    \/ MountTimer
    \/ FetchSettles
    \/ Tick
    \/ SelectAnswer
    \/ GoToNextQuestion
    \/ ToggleExpand
    \/ SetFilter
    \/ Unmount

SpecTimer == Init /\ [][NextTimer]_vars

\* The interval of line 132 keeps firing while it is set.
SpecLive == Spec /\ WF_vars(Tick)

(* ---------------------------------------------------------------- claims *)

\* C1: submitQuiz is called at most once per session, and once quizSubmitted
\* is true no event of the session changes quizSubmitted, score or the number
\* of calls of submitQuiz: neither a tick, nor the effect of lines 124-128,
\* nor the Submit button.
C1_SubmitsOnce ==
    /\ [](submitCalls <= 1)
    /\ [](quizSubmitted <=> submitCalls = 1)
    /\ [][quizSubmitted /\ mounted' =>
            /\ quizSubmitted'
            /\ score' = score
            /\ submitCalls' = submitCalls]_vars

\* C1 witness: the timer has expired on the last question, which was answered
\* (so the Submit button was ready to be clicked), and the session is
\* submitted after one call.
C1_Witness ==
    /\ quizSubmitted /\ submitCalls = 1 /\ timeRemaining = 0
    /\ View = "review"
    /\ currentQuestionIndex = Len(questions) - 1
    /\ CurrentQuestion.selectedAnswer # Undefined

\* C2: goToNextQuestion on a current question without a selected answer only
\* raises showError: currentQuestionIndex, quizSubmitted, score,
\* timeRemaining and the questions stay as they are.
C2_RejectedAdvance ==
    [][GoToNextQuestion /\ CurrentQuestion.selectedAnswer = Undefined =>
         /\ showError'
         /\ currentQuestionIndex' = currentQuestionIndex
         /\ quizSubmitted' = quizSubmitted
         /\ score' = score
         /\ timeRemaining' = timeRemaining
         /\ questions' = questions]_vars

\* C2 witness: the error is shown on the second question, which has no
\* answer, while the countdown is running.
C2_Witness ==
    /\ View = "answering" /\ showError
    /\ currentQuestionIndex = 1
    /\ CurrentQuestion.selectedAnswer = Undefined
    /\ timerClosure # "none"

\* A session has started: it has questions and is not submitted.
Started == mounted /\ Len(questions) > 0 /\ ~quizSubmitted

\* C3: under SpecLive (the interval keeps firing) a started session is
\* eventually submitted, unless the component is unmounted first.
C3_EventuallySubmitted == Started ~> (quizSubmitted \/ ~mounted)

\* C3 witness: the timer submitted the session while the current question had
\* no answer and the validation error was showing.
C3_Witness ==
    /\ quizSubmitted /\ timeRemaining = 0 /\ Len(questions) > 0
    /\ showError
    /\ CurrentQuestion.selectedAnswer = Undefined

\* C4: whenever the session is submitted, score is the number of questions
\* whose selectedAnswer equals their answer.
C4_ScoreIsCorrectCount ==
    quizSubmitted => score = CountCorrect(questions)

Min(a, b) == IF a <= b THEN a ELSE b

\* A step in which the fetch settled with a success response (lines 94-113).
SettlesOk ==
    /\ mounted
    /\ \E session \in SessionsOf(AllQuestions(weeks), numQuestions) :
           Resume("ok", session)

\* C5 as claimed: after a successful fetch the session has
\* min(numQuestions, candidates) questions, and it has none only when there is
\* no candidate, in which case the empty-selection error is recorded.
C5_AsClaimed ==
    [][SettlesOk =>
         LET n == Len(AllQuestions(weeks))
         IN  /\ Len(questions') = Min(numQuestions, n)
             /\ Len(questions') = 0 =>
                    n = 0 /\ fetchError' # NoError]_vars

\* C5 as amended: with no candidate the empty-selection error is recorded and
\* the questions stay empty; with candidates no error is recorded and the
\* session has min(numQuestions, candidates) questions, which is none exactly
\* when numQuestions is 0.
C5_LengthIsMin ==
    [][SettlesOk =>
         LET n == Len(AllQuestions(weeks))
         IN  IF n = 0
             THEN /\ fetchError' = "No questions available for the selected weeks."
                  /\ questions' = <<>>
             ELSE /\ fetchError' = NoError
                  /\ Len(questions') = Min(numQuestions, n)
                  /\ Len(questions') = 0 <=> numQuestions = 0]_vars

\* C5 witness: the fetch succeeded, numQ was 0 and the session is empty with
\* no error recorded.
C5_Witness ==
    /\ mounted /\ fetchPc = "done" /\ fetchError = NoError
    /\ questions = <<>> /\ View = "empty"

\* C6: handleAnswerSelect(answer) leaves the current question with
\* selectedAnswer = answer and clears showError; the other questions, the
\* other fields of the current one, the order, currentQuestionIndex,
\* quizSubmitted, score and timeRemaining stay as they are.
C6_SelectFrame ==
    [][\A i \in 1..Len(CurrentOptions) :
         HandleAnswerSelect(CurrentOptions[i]) =>
           /\ questions'[currentQuestionIndex + 1] =
                [ CurrentQuestion EXCEPT !.selectedAnswer = CurrentOptions[i] ]
           /\ Len(questions') = Len(questions)
           /\ \A j \in 1..Len(questions) :
                  j # currentQuestionIndex + 1 => questions'[j] = questions[j]
           /\ ~showError'
           /\ currentQuestionIndex' = currentQuestionIndex
           /\ quizSubmitted' = quizSubmitted
           /\ score' = score
           /\ timeRemaining' = timeRemaining]_vars

\* C6 witness: on the second question of three, the first two answered
\* differently and the third not yet.
C6_Witness ==
    /\ View = "answering" /\ Len(questions) = 3
    /\ currentQuestionIndex = 1
    /\ questions[1].selectedAnswer = "a"
    /\ questions[2].selectedAnswer = "b"
    /\ questions[3].selectedAnswer = Undefined

\* A step in which fetchQuizContent throws (lines 63, 74, 91, 109, or the
\* fetch rejects).
InitFails ==
    /\ mounted
    /\ \/ \E pathname \in Pathnames, weeksParam \in WeeksParams,
             numQParam \in NumQParams, timeParam \in TimeParams :
              /\ ~pathname.hasQuiz \/ pathname.courseCode = ""
              /\ Start(pathname, weeksParam, numQParam, timeParam)
       \/ \E response \in Responses :
              \E session \in SessionsOf(AllQuestions(weeks), numQuestions) :
                  /\ response # "ok" \/ AllQuestions(weeks) = <<>>
                  /\ Resume(response, session)

\* C7: a failing initialization records fetchError and sets no questions;
\* while fetchError is recorded the questions are empty and the error view
\* shows, and no event of the session clears fetchError.
C7_ErrorIsTerminal ==
    /\ [][InitFails => fetchError' # NoError /\ questions' = <<>>]_vars
    /\ [](fetchError # NoError => questions = <<>> /\ View = "error")
    /\ [][fetchError # NoError /\ mounted' => fetchError' = fetchError]_vars

\* C7 witness: the fetch failed, the countdown went on to zero and called
\* submitQuiz, and the error view still shows.
C7_Witness ==
    /\ fetchError # NoError /\ quizSubmitted /\ timeRemaining = 0
    /\ View = "error"

\* C8: no interval is set while the session is submitted or the component is
\* unmounted, a tick fires only in a mounted, unsubmitted session, and after
\* submission timeRemaining does not change.
C8_TimerStops ==
    /\ [](quizSubmitted \/ ~mounted => timerClosure = "none")
    /\ [][Tick => mounted /\ ~quizSubmitted]_vars
    /\ [][quizSubmitted /\ mounted' => timeRemaining' = timeRemaining]_vars

\* C8 witness: submitted by the Submit button with time left, no interval set.
C8_Witness ==
    /\ quizSubmitted /\ timeRemaining > 0 /\ View = "review"
    /\ timerClosure = "none"

\* C9: showWarning changes only from false to true, and only in the step that
\* takes timeRemaining from 30 to 29; that step always sets it.
C9_WarningLatch ==
    /\ [][showWarning' # showWarning /\ mounted' =>
            /\ showWarning'
            /\ timeRemaining = 30 /\ timeRemaining' = 29]_vars
    /\ [][Tick /\ timeRemaining = 30 => showWarning']_vars

\* C9 witness: the warning shows in the review of a session submitted with
\* less than 29 seconds left.
C9_Witness ==
    /\ showWarning /\ quizSubmitted /\ View = "review"
    /\ timeRemaining \in 1..28

\* The value of a 6-digit HHMMSS string.
Hhmmss(t) ==
    3600 * (10 * t[1] + t[2]) + 60 * (10 * t[3] + t[4]) + (10 * t[5] + t[6])

\* C10: fetchQuizContent leaves timeRemaining at 3600*HH + 60*MM + SS of a
\* 6-digit time parameter, and at 1800 when the parameter is absent or that
\* value is 0; timeRemaining is never negative and a tick takes exactly 1
\* from it.
C10_TimeBudget ==
    /\ [][\A pathname \in Pathnames, timeParam \in LongTimeParams :
            /\ Start(pathname, TimerWeeksParam, TimerNumQParam, timeParam)
            /\ fetchPc' = "awaiting"
            /\ timeParam = <<>> \/ Len(timeParam) = 6
            => timeRemaining' =
                 (IF timeParam = <<>> THEN 1800
                  ELSE IF Hhmmss(timeParam) = 0 THEN 1800
                  ELSE Hhmmss(timeParam))]_vars
    /\ [](timeRemaining \in Nat)
    /\ [][Tick => timeRemaining' = timeRemaining - 1]_vars

\* C10 witness: one tick after a start with time=010203.
C10_Witness ==
    /\ timeRemaining = 3722 /\ timerClosure # "none"

RECURSIVE IncorrectOf(_)
\* The questions of qs whose selectedAnswer is not their answer, in order.
IncorrectOf(qs) ==
    IF qs = <<>> THEN <<>>
    ELSE (IF Head(qs).selectedAnswer = Head(qs).answer
          THEN <<>> ELSE <<Head(qs)>>) \o IncorrectOf(Tail(qs))

\* C11: in the review view, with showOnlyIncorrect the displayed questions
\* are the incorrectly answered or unanswered ones in session order, and
\* there are Len(questions) - score of them; without it they are all the
\* questions.
C11_DisplayedIncorrect ==
    mounted /\ View = "review" =>
        IF showOnlyIncorrect
        THEN /\ DisplayedQuestions = IncorrectOf(questions)
             /\ Len(DisplayedQuestions) = Len(questions) - score
        ELSE DisplayedQuestions = questions

\* C12: toggleQuestionExpansion(index) sets expandedQuestionIndex to null
\* when it is index and to index otherwise, and changes nothing else; while
\* the quiz is not submitted expandedQuestionIndex is null.
C12_ToggleExpand ==
    /\ [][\A index \in 0..(Len(questions) - 1) :
            ToggleQuestionExpansion(index) =>
              /\ expandedQuestionIndex' =
                   (IF expandedQuestionIndex = index THEN NoIndex ELSE index)
              /\ showOnlyIncorrect' = showOnlyIncorrect
              /\ questions' = questions]_vars
    /\ [](~quizSubmitted => expandedQuestionIndex = NoIndex)

\* C12 witness: the second displayed question is the expanded one.
C12_Witness ==
    /\ View = "review" /\ expandedQuestionIndex = 1
    /\ Len(DisplayedQuestions) >= 2

\* The bank questions of the weeks whose numeric label is requested, as
\* pairs of the question and the first of its answers.
RequestedBankQuestions(requested) ==
    UNION { { << Bank.weeks[w].questions[i].question,
                 Bank.weeks[w].questions[i].answer[1] >> :
                i \in 1..Len(Bank.weeks[w].questions) } :
            w \in { v \in 1..Len(Bank.weeks) :
                      \E k \in 1..Len(requested) :
                          requested[k] = ParseInt(Bank.weeks[v].name) } }

\* C13: the questions a successful fetch sets are distinct bank questions of
\* requested weeks, each with the first answer of its bank question as
\* answer; once set, the questions keep their order and all their fields but
\* selectedAnswer.
C13_SessionFromBank ==
    /\ [][SettlesOk =>
            /\ \A j \in 1..Len(questions') :
                   << questions'[j].question, questions'[j].answer >>
                       \in RequestedBankQuestions(weeks)
            /\ \A j, k \in 1..Len(questions') :
                   questions'[j].question = questions'[k].question => j = k]_vars
    /\ [][questions # <<>> /\ mounted' =>
            /\ Len(questions') = Len(questions)
            /\ \A j \in 1..Len(questions) :
                   questions'[j] =
                     [ questions[j] EXCEPT
                         !.selectedAnswer = questions'[j].selectedAnswer ]]_vars

\* C13 witness: a session of the three bank questions, the question of week
\* 02 first, with an answer selected.
C13_Witness ==
    /\ View = "answering" /\ Len(questions) = 3
    /\ questions[1].question = 3
    /\ questions[1].selectedAnswer = "b"

\* C15: currentQuestionIndex is an index of questions whenever there are
\* questions (and 0 when there are none); it changes only in a
\* goToNextQuestion on an answered question that is not the last, by exactly
\* +1; goToNextQuestion on the answered last question submits and leaves it.
C15_IndexInRange ==
    /\ [](IF Len(questions) = 0
          THEN currentQuestionIndex = 0
          ELSE currentQuestionIndex \in 0..(Len(questions) - 1))
    /\ [][currentQuestionIndex' # currentQuestionIndex /\ mounted' =>
            /\ GoToNextQuestion
            /\ CurrentQuestion.selectedAnswer # Undefined
            /\ currentQuestionIndex < Len(questions) - 1
            /\ currentQuestionIndex' = currentQuestionIndex + 1]_vars
    /\ [][/\ GoToNextQuestion
          /\ CurrentQuestion.selectedAnswer # Undefined
          /\ currentQuestionIndex = Len(questions) - 1
          => quizSubmitted' /\ currentQuestionIndex' = currentQuestionIndex]_vars

\* C15 witness: submitted by the Submit button on the last of three questions.
C15_Witness ==
    /\ View = "review" /\ Len(questions) = 3 /\ currentQuestionIndex = 2
    /\ timeRemaining > 0

\* C16: the quiz is never submitted while there are no questions (during
\* loading, after a failed initialization).
C16_NoSubmitWithoutQuestions ==
    Len(questions) = 0 => ~quizSubmitted

\* C17: no tick of the countdown happens while the fetch is under way, so
\* that timeRemaining is still the initial budget when the questions are set.
C17_NoTickWhileLoading ==
    [][Tick => ~isLoading]_vars

\* C18: every question before the current one has a selected answer, and the
\* Submit button submits only when every question has one.
C18_ForcedAnswers ==
    /\ [](\A j \in 1..Len(questions) :
              j < currentQuestionIndex + 1 =>
                  questions[j].selectedAnswer # Undefined)
    /\ [][GoToNextQuestion /\ quizSubmitted' /\ ~quizSubmitted =>
            \A j \in 1..Len(questions) :
                questions[j].selectedAnswer # Undefined]_vars

\* C18 witness: submitted by the Submit button with time left, three
\* questions answered.
C18_Witness ==
    /\ View = "review" /\ Len(questions) = 3 /\ timeRemaining > 0
    /\ \A j \in 1..3 : questions[j].selectedAnswer # Undefined

\* C19: in the answering view showError is true only while the current
\* question has no selected answer; it becomes true only in a rejected
\* goToNextQuestion, and handleAnswerSelect and an accepted goToNextQuestion
\* leave it false.
C19_ErrorFlag ==
    /\ [](mounted /\ View = "answering" /\ showError =>
              CurrentQuestion.selectedAnswer = Undefined)
    /\ [][showError' /\ ~showError =>
            GoToNextQuestion /\ CurrentQuestion.selectedAnswer = Undefined]_vars
    /\ [][SelectAnswer => ~showError']_vars
    /\ [][GoToNextQuestion /\ CurrentQuestion.selectedAnswer # Undefined =>
            ~showError']_vars

\* C19 witness: the error was raised on the first question, an answer was
\* then selected and the user is on the second question with no error shown.
C19_Witness ==
    /\ View = "answering" /\ currentQuestionIndex = 1 /\ ~showError
    /\ questions[1].selectedAnswer # Undefined
    /\ CurrentQuestion.selectedAnswer = Undefined

\* C20: in the review view a set expandedQuestionIndex is an index of the
\* displayed questions, and a step that leaves it as it is leaves it on the
\* same question.
C20_ExpandedFollowsFilter ==
    [][mounted' /\ View' = "review" /\ expandedQuestionIndex' # NoIndex =>
         /\ expandedQuestionIndex' < Len(DisplayedQuestions')
         /\ (/\ View = "review"
             /\ expandedQuestionIndex = expandedQuestionIndex'
             /\ expandedQuestionIndex < Len(DisplayedQuestions))
            => DisplayedQuestions'[expandedQuestionIndex' + 1].question
                 = DisplayedQuestions[expandedQuestionIndex + 1].question]_vars

====
